---- MODULE Spec2Model ----
(***************************************************************************)
(* Model of app.py: the Streamlit page that cleans pasted Contract IDs.    *)
(*                                                                         *)
(* A text is a sequence of characters, each character a one-symbol string. *)
(* An integer is kept as its canonical decimal digit sequence (no leading  *)
(* zeros), so that values around 2^63 can be compared with 32-bit integer *)
(* arithmetic.                                                             *)
(*                                                                         *)
(* pandas is modelled as pandas 2.x behaves on the values the page feeds   *)
(* it: to_numeric(errors='coerce') on an object Series of strings, then    *)
(* astype('Int64').                                                        *)
(***************************************************************************)
EXTENDS Integers, Sequences, FiniteSets, TLC

\* Longest input text, counted in pieces (see Pieces).
MaxPieces == 4

-----------------------------------------------------------------------------
(* Characters *)

AsciiDigits == {"0", "1", "2", "3", "4", "5", "6", "7", "8", "9"}

\* U+0663 ARABIC-INDIC DIGIT THREE: a decimal digit (category Nd) outside 0-9.
ArabicIndicThree == "U0663"

\* re's \d on a str pattern: any Unicode decimal digit.
IsDigit(c) == c \in AsciiDigits \cup {ArabicIndicThree}

\* str.strip() with no argument removes whitespace.
IsSpace(c) == c \in {" ", "\n"}

\* str.lower(), on the letters the model uses.
LowerChar(c) == IF c = "N" THEN "n" ELSE IF c = "A" THEN "a" ELSE c

DigitVal(c) ==
    CASE c = "0" -> 0 [] c = "1" -> 1 [] c = "2" -> 2 [] c = "3" -> 3
      [] c = "4" -> 4 [] c = "5" -> 5 [] c = "6" -> 6 [] c = "7" -> 7
      [] c = "8" -> 8 [] c = "9" -> 9 [] c = ArabicIndicThree -> 3

\* None, as distinct from every text; "not raw_input_text" is true of it.
None == <<"None">>

-----------------------------------------------------------------------------
(* Decimal digit sequences as unsigned integers *)

\* 2^63 - 1, the largest int64.
Int64MaxDigits ==
    <<"9","2","2","3","3","7","2","0","3","6","8","5","4","7","7","5","8","0","7">>

\* 2^63.
Int64OverDigits ==
    <<"9","2","2","3","3","7","2","0","3","6","8","5","4","7","7","5","8","0","8">>

\* 2^64 - 1, the largest uint64.
UInt64MaxDigits ==
    <<"1","8","4","4","6","7","4","4","0","7","3","7","0","9","5","5","1","6","1","5">>

RECURSIVE StripLeadingZeros(_)
StripLeadingZeros(s) ==
    IF Len(s) <= 1 THEN s
    ELSE IF Head(s) = "0" THEN StripLeadingZeros(Tail(s))
    ELSE s

RECURSIVE LexLeq(_, _)
LexLeq(a, b) ==
    IF a = <<>> THEN TRUE
    ELSE IF DigitVal(Head(a)) < DigitVal(Head(b)) THEN TRUE
    ELSE IF DigitVal(Head(a)) > DigitVal(Head(b)) THEN FALSE
    ELSE LexLeq(Tail(a), Tail(b))

\* a <= b, for canonical digit sequences.
NumLeq(a, b) ==
    \/ Len(a) < Len(b)
    \/ Len(a) = Len(b) /\ LexLeq(a, b)

\* Faulty variant of PyInt: only one leading zero is dropped.
PyIntOneZero(s) ==
    LET t == [i \in 1..Len(s) |-> IF s[i] = ArabicIndicThree THEN "3" ELSE s[i]]
    IN  IF Len(t) > 1 /\ Head(t) = "0" THEN Tail(t) ELSE t

\* int(s) for a string of decimal digits: Python reads any Unicode decimal
\* digit by its value.
PyInt(s) == StripLeadingZeros([i \in 1..Len(s) |->
                IF s[i] = ArabicIndicThree THEN "3" ELSE s[i]])

-----------------------------------------------------------------------------
(* String operations of process_contract_ids *)

RECURSIVE DropNonDigits(_)
DropNonDigits(s) ==
    IF s = <<>> \/ IsDigit(Head(s)) THEN s ELSE DropNonDigits(Tail(s))

\* Faulty variant of ReSubNonDigits: re.sub(r'\D+', '', s), the non-digits
\* deleted instead of replaced by a comma.
ReSubDeleteNonDigits(s) == SelectSeq(s, IsDigit)

\* re.sub(r'\D+', ',', s): every maximal run of non-digits becomes one comma.
RECURSIVE ReSubNonDigits(_)
ReSubNonDigits(s) ==
    IF s = <<>> THEN <<>>
    ELSE IF IsDigit(Head(s)) THEN <<Head(s)>> \o ReSubNonDigits(Tail(s))
    ELSE <<",">> \o ReSubNonDigits(DropNonDigits(Tail(s)))

\* s.split(','): the pieces between commas, empty pieces included.
RECURSIVE SplitComma(_)
SplitComma(s) ==
    IF \A i \in 1..Len(s) : s[i] /= "," THEN <<s>>
    ELSE LET i == CHOOSE k \in 1..Len(s) :
                    s[k] = "," /\ \A j \in 1..(k - 1) : s[j] /= ","
         IN  <<SubSeq(s, 1, i - 1)>> \o SplitComma(SubSeq(s, i + 1, Len(s)))

RECURSIVE LStrip(_)
LStrip(s) == IF s /= <<>> /\ IsSpace(Head(s)) THEN LStrip(Tail(s)) ELSE s

RECURSIVE RStrip(_)
RStrip(s) ==
    IF s /= <<>> /\ IsSpace(s[Len(s)]) THEN RStrip(SubSeq(s, 1, Len(s) - 1)) ELSE s

\* item.strip()
Strip(s) == RStrip(LStrip(s))

Lower(s) == [i \in 1..Len(s) |-> LowerChar(s[i])]

\* str.replace(r'\.0$', '', regex=True)
ReplaceDotZeroAtEnd(s) ==
    IF Len(s) >= 2 /\ s[Len(s) - 1] = "." /\ s[Len(s)] = "0"
    THEN SubSeq(s, 1, Len(s) - 2)
    ELSE s

NonEmpty(s) == s /= <<>>

NotNan(s) == Lower(s) /= <<"n", "a", "n">>

\* [item.strip() for item in text_processed.split(',') if item.strip()]
ListOfIds(text_processed) ==
    LET items == SplitComma(text_processed)
    IN  SelectSeq([i \in 1..Len(items) |-> Strip(items[i])], NonEmpty)

-----------------------------------------------------------------------------
(* Cells of a pandas Series *)

StrCell(s) == [k |-> "str", v |-> s]

\* An integer or float cell; v holds the decimal digits of its value.
NumCell(d) == [k |-> "num", v |-> d]

\* NaN in a float64 array, <NA> in an Int64 array.
NA == [k |-> "NA", v |-> <<>>]

NotNA(c) == c.k /= "NA"

\* str(x) of a cell, as astype(str) renders it: a Python int prints its
\* decimal digits, a string is itself.
AsStr(c) == c.v

-----------------------------------------------------------------------------
(* pd.to_numeric(series, errors='coerce') on strings                       *)

\* floatify: the C parser reads ASCII digits only; any other byte is a
\* parse error, which errors='coerce' turns into NaN.
Parseable(tok) == tok /= <<>> /\ \A i \in 1..Len(tok) : tok[i] \in AsciiDigits

FitsInt64(d) == NumLeq(d, Int64MaxDigits)

FitsUInt64(d) == NumLeq(d, UInt64MaxDigits)

\* Seen.null_
SeenNull(toks) == \E i \in 1..Len(toks) : ~Parseable(toks[i])

\* Seen.uint_: some value in (INT64_MAX, UINT64_MAX].
SeenUInt(toks) ==
    \E i \in 1..Len(toks) :
        Parseable(toks[i]) /\ ~FitsInt64(PyInt(toks[i])) /\ FitsUInt64(PyInt(toks[i]))

\* A value above UINT64_MAX: with coercion it sets Seen.float_.
SeenHuge(toks) ==
    \E i \in 1..Len(toks) : Parseable(toks[i]) /\ ~FitsUInt64(PyInt(toks[i]))

\* The dtype maybe_convert_numeric settles on. A uint64 value beside a null is
\* a "uint64 conflict": the strings come back unconverted (object).
ToNumericDtype(toks) ==
    IF SeenUInt(toks) /\ SeenNull(toks) THEN "object"
    ELSE IF SeenNull(toks) \/ SeenHuge(toks) THEN "float64"
    ELSE IF SeenUInt(toks) THEN "uint64"
    ELSE "int64"

ToNumericCell(tok) == IF Parseable(tok) THEN NumCell(PyInt(tok)) ELSE NA

ToNumeric(toks) ==
    [dtype  |-> ToNumericDtype(toks),
     values |-> IF ToNumericDtype(toks) = "object"
                THEN [i \in 1..Len(toks) |-> StrCell(toks[i])]
                ELSE [i \in 1..Len(toks) |-> ToNumericCell(toks[i])]]

-----------------------------------------------------------------------------
(* Series.astype('Int64')                                                  *)

\* A double holds every integer of at most 15 decimal digits exactly. A longer
\* one may be rounded to a neighbouring double; the input texts below never
\* put one of 16 to 19 digits in a float64 array without one of 20 or more,
\* which decides the cast on its own.
Float64Exact(d) == Len(d) <= 15

\* IntegerDtype._safe_cast: the cast to int64 must give back equal values.
CastsToInt64(dtype, c) ==
    CASE dtype = "int64"   -> TRUE
      [] dtype = "uint64"  -> FitsInt64(c.v)
      [] dtype = "float64" -> c = NA \/ (Float64Exact(c.v) /\ FitsInt64(c.v))
      [] dtype = "object"  -> FitsInt64(PyInt(c.v))

Int64Cell(dtype, c) ==
    IF c = NA THEN NA
    ELSE IF dtype = "object" THEN NumCell(PyInt(c.v))
    ELSE NumCell(c.v)

\* raised: the TypeError of _safe_cast or the OverflowError of numpy's cast.
AsTypeInt64(numeric) ==
    LET ok == \A i \in 1..Len(numeric.values) :
                  CastsToInt64(numeric.dtype, numeric.values[i])
    IN  [raised |-> ~ok,
         values |-> IF ok
                    THEN [i \in 1..Len(numeric.values) |->
                             Int64Cell(numeric.dtype, numeric.values[i])]
                    ELSE <<>>]

-----------------------------------------------------------------------------
(* DataFrame.drop_duplicates().reset_index(drop=True): keep the first.      *)

\* Faulty variant of DropDuplicates: drop_duplicates(keep='last').
DropDuplicatesKeepLast(cells) ==
    LET Last(i) == \A j \in (i + 1)..Len(cells) : cells[j] /= cells[i]
        RECURSIVE Pick(_)
        Pick(i) == IF i > Len(cells) THEN <<>>
                   ELSE IF Last(i) THEN <<cells[i]>> \o Pick(i + 1)
                   ELSE Pick(i + 1)
    IN  Pick(1)

DropDuplicates(cells) ==
    LET First(i) == \A j \in 1..(i - 1) : cells[j] /= cells[i]
        kept == {i \in 1..Len(cells) : First(i)}
        RECURSIVE Pick(_)
        Pick(i) == IF i > Len(cells) THEN <<>>
                   ELSE IF i \in kept THEN <<cells[i]>> \o Pick(i + 1)
                   ELSE Pick(i + 1)
    IN  Pick(1)

-----------------------------------------------------------------------------
(* process_contract_ids                                                    *)

\* Faulty variant of IsFalsy: the guard written as raw_input_text == "".
IsFalsyEmptyOnly(raw_input_text) == raw_input_text = <<>>

\* "if not raw_input_text": None and the empty string are falsy.
IsFalsy(raw_input_text) == raw_input_text = None \/ raw_input_text = <<>>

\* The Series after the string clean-up of step 3.
CleanSeries(list_of_ids) ==
    LET kept == SelectSeq(SelectSeq(list_of_ids, NonEmpty), NotNan)
    IN  [i \in 1..Len(kept) |-> ReplaceDotZeroAtEnd(kept[i])]

\* Faulty variant of Coerce: the numeric Series is never assigned back.
CoerceKeepsStrings(df_split) ==
    [i \in 1..Len(df_split) |-> StrCell(df_split[i])]

\* try: to_numeric + astype('Int64'); except: pass. When astype raises,
\* df_split was never reassigned and is still the Series of strings.
Coerce(df_split) ==
    LET df_numeric == ToNumeric(df_split)
        as_int     == AsTypeInt64(df_numeric)
    IN  IF as_int.raised
        THEN [i \in 1..Len(df_split) |-> StrCell(df_split[i])]
        ELSE as_int.values

\* df_split.dropna()
DropNa(cells) == SelectSeq(cells, NotNA)

\* An exception leaving the function, held where its result would be.
Raised(e) == <<[k |-> "raise", v |-> <<e>>]>>

\* The value returned: the cells of column 'Contract ID Limpo', <<>> for an
\* empty DataFrame. Past the guard, re.sub needs a string.
process_contract_ids(raw_input_text) ==
    IF IsFalsy(raw_input_text) THEN <<>>
    ELSE IF raw_input_text = None THEN Raised("TypeError")
    ELSE LET list_of_ids == ListOfIds(ReSubNonDigits(raw_input_text))
         IN  IF list_of_ids = <<>> THEN <<>>
             ELSE DropDuplicates(DropNa(Coerce(CleanSeries(list_of_ids))))

\* processed_df['Contract ID Limpo'].astype(str).tolist()
Numeros(df) == [i \in 1..Len(df) |-> AsStr(df[i])]

-----------------------------------------------------------------------------
(* The button handler's formatting                                         *)

Quote(n) == <<"'">> \o n \o <<"'">>

RECURSIVE JoinComma(_)
JoinComma(parts) ==
    IF parts = <<>> THEN <<>>
    ELSE IF Len(parts) = 1 THEN parts[1]
    ELSE parts[1] \o <<",">> \o JoinComma(Tail(parts))

RECURSIVE JoinCommaSpace(_)
JoinCommaSpace(parts) ==
    IF parts = <<>> THEN <<>>
    ELSE IF Len(parts) = 1 THEN parts[1]
    ELSE parts[1] \o <<",", " ">> \o JoinCommaSpace(Tail(parts))

\* Faulty variant of Saida: ", ".join(...), as the page's instruction text
\* writes its example.
SaidaCommaSpace(numeros) ==
    JoinCommaSpace([i \in 1..Len(numeros) |-> Quote(numeros[i])])

\* ",".join([f"'{n}'" for n in numeros])
Saida(numeros) == JoinComma([i \in 1..Len(numeros) |-> Quote(numeros[i])])

\* len(numeros)
TotalIds(numeros) == Len(numeros)

\* The message stored in saida_formatada when no identifier was found, held
\* as a one-symbol text (it is never formatted or parsed). The messages are
\* written here without their accents.
NenhumIdValido == <<"Nenhum ID valido encontrado.">>

\* The two st.warning messages.
WarnColeOsIds == "Por favor, cole os IDs de contrato antes de processar."

WarnNenhumContractId ==
    "Nenhum 'Contract ID' valido foi encontrado na entrada fornecida."

-----------------------------------------------------------------------------
(* Input texts *)

\* A text is a concatenation of pieces: single characters, an identifier with
\* its comma, and the two 19-digit numbers on either side of the int64 limit.
AsciiPieces ==
    {<<"0">>, <<"7">>, <<"7", ",">>, <<".">>, Int64MaxDigits, Int64OverDigits}

\* Texts holding a non-ASCII digit.
UnicodePieces ==
    {<<"0">>, <<"7">>, <<",">>, <<ArabicIndicThree>>, Int64OverDigits}

RECURSIVE TextsOf(_, _)
TextsOf(pieces, n) ==
    IF n = 0 THEN {<<>>}
    ELSE LET shorter == TextsOf(pieces, n - 1)
         IN  shorter \cup {t \o p : t \in shorter, p \in pieces}

\* "ID: 12345678 (note) 90123456, 78901234\n56789012"
ExampleIdNote ==
    <<"I","D",":"," ","1","2","3","4","5","6","7","8"," ","(","n","o","t","e",")",
      " ","9","0","1","2","3","4","5","6",","," ","7","8","9","0","1","2","3","4",
      "\n","5","6","7","8","9","0","1","2">>

\* "100, 100, 100"
ExampleHundreds == <<"1","0","0",","," ","1","0","0",","," ","1","0","0">>

\* "12345678.0"
ExampleFloat == <<"1","2","3","4","5","6","7","8",".","0">>

\* "abc, , nan, NaN"
ExampleNoDigits ==
    <<"a","b","c",","," ",","," ","n","a","n",","," ","N","a","N">>

Examples == {ExampleIdNote, ExampleHundreds, ExampleFloat, ExampleNoDigits}

Inputs ==
    TextsOf(AsciiPieces, MaxPieces) \cup TextsOf(UnicodePieces, MaxPieces)
      \cup Examples

\* The texts pasted into the page: every one-piece text and a few longer ones.
SessionTexts ==
    TextsOf(AsciiPieces \cup UnicodePieces, 1)
      \cup { <<"7", ".", "0">>,
             <<"0", "7", ",", "7">>,
             <<"7", ",", "0", ",", "7">>,
             <<"1", ",", "2", ",", "3">>,
             <<"0", "7", ",">> \o Int64OverDigits,
             <<ArabicIndicThree, ",">> \o Int64OverDigits }

-----------------------------------------------------------------------------
(* State *)

VARIABLES
    pc,               \* "call"/"returned": a direct call; "page": the page
    raw_input_text,   \* argument of the latest call of process_contract_ids
    processed_df,     \* what that call returned
    raw_text_input,   \* value of the text area
    show_output,      \* st.session_state.show_output
    saida_formatada,  \* st.session_state.saida_formatada
    total_ids,        \* st.session_state.total_ids
    button,           \* what st.button returned in the latest script run
    warnings,         \* st.warning messages shown by the latest script run
    last_click        \* history: text of the latest button click, or NoClick

vars == <<pc, raw_input_text, processed_df, raw_text_input, show_output,
          saida_formatada, total_ids, button, warnings, last_click>>

session == <<show_output, saida_formatada, total_ids>>

NoCall == <<"NoCall">>

NoClick == <<"NoClick">>

\* "if 'show_output' not in st.session_state": the first script run.
SessionInit ==
    /\ show_output = FALSE
    /\ saida_formatada = <<>>
    /\ total_ids = 0

\* The page after its first script run: nothing pasted, nothing clicked.
Init ==
    /\ pc = "page"
    /\ raw_input_text = NoCall
    /\ processed_df = <<>>
    /\ raw_text_input = <<>>
    /\ SessionInit
    /\ button = FALSE
    /\ warnings = {}
    /\ last_click = NoClick

\* A script rerun in which the button returns False: the text area was
\* edited (or left alone). Nothing below line 170 runs.
Rerun(t) ==
    /\ pc = "page"
    /\ raw_text_input' = t
    /\ button' = FALSE
    /\ warnings' = {}
    /\ UNCHANGED <<pc, raw_input_text, processed_df, session, last_click>>

\* Faulty variant of Click: the empty-input branch forgets to clear
\* show_output.
ClickLeavesShowOutput(t) ==
    /\ pc = "page"
    /\ raw_text_input' = t
    /\ button' = TRUE
    /\ last_click' = t
    /\ pc' = pc
    /\ IF IsFalsy(t)
       THEN /\ warnings' = {WarnColeOsIds}
            /\ UNCHANGED <<raw_input_text, processed_df, session>>
       ELSE /\ raw_input_text' = t
            /\ processed_df' = process_contract_ids(t)
            /\ IF processed_df' /= <<>>
               THEN /\ saida_formatada' = Saida(Numeros(processed_df'))
                    /\ total_ids' = TotalIds(Numeros(processed_df'))
                    /\ show_output' = TRUE
                    /\ warnings' = {}
               ELSE /\ show_output' = FALSE
                    /\ saida_formatada' = NenhumIdValido
                    /\ warnings' = {WarnNenhumContractId}
                    /\ UNCHANGED total_ids

\* A script rerun in which the button returns True, the text area holding t.
Click(t) ==
    /\ pc = "page"
    /\ raw_text_input' = t
    /\ button' = TRUE
    /\ last_click' = t
    /\ pc' = pc
    /\ IF IsFalsy(t)
       THEN /\ warnings' = {WarnColeOsIds}
            /\ show_output' = FALSE
            /\ UNCHANGED <<raw_input_text, processed_df, saida_formatada, total_ids>>
       ELSE /\ raw_input_text' = t
            /\ processed_df' = process_contract_ids(t)
            /\ IF processed_df' /= <<>>
               THEN /\ saida_formatada' = Saida(Numeros(processed_df'))
                    /\ total_ids' = TotalIds(Numeros(processed_df'))
                    /\ show_output' = TRUE
                    /\ warnings' = {}
               ELSE /\ show_output' = FALSE
                    /\ saida_formatada' = NenhumIdValido
                    /\ warnings' = {WarnNenhumContractId}
                    /\ UNCHANGED total_ids

Next == \E t \in SessionTexts : Rerun(t) \/ Click(t)

Spec == Init /\ [][Next]_vars

\* What the right-hand column renders.
OutputPanel ==
    IF show_output /\ saida_formatada /= <<>>
    THEN [info |-> total_ids, code |-> saida_formatada]
    ELSE [info |-> -1, code |-> <<"Aguardando colagem e processamento dos dados...">>]

-----------------------------------------------------------------------------
(* process_contract_ids called directly on any argument *)

InitCall ==
    /\ pc = "call"
    /\ raw_input_text \in Inputs \cup {None}
    /\ processed_df = <<>>
    /\ raw_text_input = <<>>
    /\ SessionInit
    /\ button = FALSE
    /\ warnings = {}
    /\ last_click = NoClick

Call ==
    /\ pc = "call"
    /\ processed_df' = process_contract_ids(raw_input_text)
    /\ pc' = "returned"
    /\ UNCHANGED <<raw_input_text, raw_text_input, session, button, warnings,
                   last_click>>

NextCall == Call

SpecCall == InitCall /\ [][NextCall]_vars

-----------------------------------------------------------------------------
(* Reference notions the properties are stated with                        *)

RECURSIVE RunsFrom(_, _)
RunsFrom(raw, i) ==
    IF i > Len(raw) THEN <<>>
    ELSE IF ~IsDigit(raw[i]) THEN RunsFrom(raw, i + 1)
    ELSE LET j == CHOOSE e \in i..Len(raw) :
                    /\ \A m \in i..e : IsDigit(raw[m])
                    /\ e = Len(raw) \/ ~IsDigit(raw[e + 1])
         IN  <<SubSeq(raw, i, j)>> \o RunsFrom(raw, j + 1)

\* The maximal runs of digit characters of a text, left to right.
MaximalDigitRuns(raw) == RunsFrom(raw, 1)

IsAsciiRun(run) == \A i \in 1..Len(run) : run[i] \in AsciiDigits

\* A run without its leading zeros ("000" is "0").
WithoutLeadingZeros(run) ==
    LET nz == {i \in 1..Len(run) : run[i] /= "0"} \cup {Len(run)}
        k  == CHOOSE i \in nz : \A m \in nz : i <= m
    IN  SubSeq(run, k, Len(run))

\* The canonical decimal string of the unsigned integer a run denotes.
CanonicalDecimal(run) ==
    WithoutLeadingZeros([i \in 1..Len(run) |->
        IF run[i] = ArabicIndicThree THEN "3" ELSE run[i]])

RECURSIVE Unseen(_, _)
Unseen(seq, seen) ==
    IF seq = <<>> THEN <<>>
    ELSE IF Head(seq) \in seen THEN Unseen(Tail(seq), seen)
    ELSE <<Head(seq)>> \o Unseen(Tail(seq), seen \cup {Head(seq)})

RemoveLaterDuplicates(seq) == Unseen(seq, {})

\* The canonical algorithm: digit runs, canonical decimal, first of each.
Reference(raw) ==
    LET runs == MaximalDigitRuns(raw)
    IN  RemoveLaterDuplicates([i \in 1..Len(runs) |-> CanonicalDecimal(runs[i])])

Members(seq) == {seq[i] : i \in 1..Len(seq)}

\* Every digit run is made of 0-9.
AllRunsAscii(raw) ==
    \A run \in Members(MaximalDigitRuns(raw)) : IsAsciiRun(run)

\* Every digit run is ASCII and denotes a value of at most 2^63 - 1.
AllRunsInt64(raw) ==
    \A run \in Members(MaximalDigitRuns(raw)) :
        IsAsciiRun(run) /\ FitsInt64(CanonicalDecimal(run))

\* Some ASCII digit run denotes a value above 2^63 - 1.
SomeRunOverInt64(raw) ==
    \E run \in Members(MaximalDigitRuns(raw)) :
        IsAsciiRun(run) /\ ~FitsInt64(CanonicalDecimal(run))

Returned == pc = "returned" /\ raw_input_text /= None

ResultIds == Numeros(processed_df)

-----------------------------------------------------------------------------
(* Properties of process_contract_ids, under SpecCall                      *)

\* C1 as stated, the digit characters read as 0-9: for every input text
\* whose digit runs are made of 0-9, the result is the reference result (digit
\* runs, canonical decimal strings, later duplicates removed).
C1_ReferenceForEveryInput ==
    (Returned /\ AllRunsAscii(raw_input_text))
        => ResultIds = Reference(raw_input_text)

\* C1 as amended: when every digit run is made of 0-9 and denotes at most
\* 2^63 - 1, the result is the reference result, in that order.
C1_ReferenceWithinInt64 ==
    (Returned /\ AllRunsInt64(raw_input_text))
        => ResultIds = Reference(raw_input_text)

\* C1: the claim's example has been processed.
C1_Witness ==
    /\ pc = "returned"
    /\ raw_input_text = ExampleIdNote
    /\ ResultIds = << <<"1","2","3","4","5","6","7","8">>,
                      <<"9","0","1","2","3","4","5","6">>,
                      <<"7","8","9","0","1","2","3","4">>,
                      <<"5","6","7","8","9","0","1","2">> >>

\* C2: the result, rendered as strings, holds no empty string, no string
\* twice, and only the characters 0-9.
C2_OnlyAsciiDigitsNoDuplicates ==
    Returned =>
        /\ \A i \in 1..Len(ResultIds) :
              /\ ResultIds[i] /= <<>>
              /\ \A m \in 1..Len(ResultIds[i]) : ResultIds[i][m] \in AsciiDigits
        /\ \A i, j \in 1..Len(ResultIds) : i /= j => ResultIds[i] /= ResultIds[j]

SpelledRuns(raw) ==
    LET runs == MaximalDigitRuns(raw)
        over == SomeRunOverInt64(raw)
    IN  [i \in 1..Len(runs) |->
            IF over THEN runs[i] ELSE WithoutLeadingZeros(runs[i])]

\* Position in spelled of the first run spelled id (0 if there is none).
FirstOccurrence(id, spelled) ==
    LET occ == {i \in 1..Len(spelled) : spelled[i] = id}
    IN  IF occ = {} THEN 0 ELSE CHOOSE i \in occ : \A m \in occ : i <= m

C5_FloatArtifactStripped ==
    \A d \in Members(MaximalDigitRuns(raw_input_text)) :
        (/\ Returned
         /\ raw_input_text = d \o <<".", "0">>
         /\ IsAsciiRun(d) /\ d = WithoutLeadingZeros(d) /\ FitsInt64(d))
            => ResultIds = <<d>>

\* C6: joining the result with commas and processing that text again gives
\* the same identifiers in the same order.
C6_Idempotent ==
    pc = "returned" =>
        Numeros(process_contract_ids(JoinComma(ResultIds))) = ResultIds

\* C6: a result of several identifiers whose joined text is not the input.
C6_Witness ==
    /\ Returned
    /\ Len(ResultIds) >= 2
    /\ JoinComma(ResultIds) /= raw_input_text
    /\ \E run \in Members(MaximalDigitRuns(raw_input_text)) :
          run \notin Members(ResultIds)

HasNoDigit(raw) == \A i \in 1..Len(raw) : ~IsDigit(raw[i])

\* C9: None, the empty text and a text without any digit character give an
\* empty result, and no exception.
C9_NoDigitsGiveEmpty ==
    (/\ pc = "returned"
     /\ \/ raw_input_text = None
        \/ HasNoDigit(raw_input_text))
        => processed_df = <<>>

\* C9: the claim's example of a text without digits has been processed.
C9_Witness ==
    /\ pc = "returned"
    /\ raw_input_text = ExampleNoDigits
    /\ processed_df = <<>>

-----------------------------------------------------------------------------
(* Properties of the page, under Spec                                      *)

RECURSIVE LiteralAt(_, _, _)
\* text, from position at on, is the quoted ids joined by single commas and
\* nothing else.
LiteralAt(text, at, ids) ==
    IF ids = <<>> THEN at = Len(text) + 2
    ELSE LET id   == Head(ids)
             stop == at + Len(id) + 1
         IN  /\ stop <= Len(text)
             /\ text[at] = "'"
             /\ SubSeq(text, at + 1, stop - 1) = id
             /\ text[stop] = "'"
             /\ stop < Len(text) => text[stop + 1] = ","
             /\ Len(ids) > 1 => stop < Len(text)
             /\ LiteralAt(text, stop + 2, Tail(ids))

\* text is 'id1','id2',...: one single-quoted literal per identifier, commas
\* between them, no space, no bracket, no trailing comma.
IsSqlLiteralOf(text, ids) == ids /= <<>> /\ LiteralAt(text, 1, ids)

\* The latest script run was a click that called process_contract_ids.
ClickedWithText == pc = "page" /\ button /\ ~IsFalsy(raw_text_input)

C8_FallbackKeepsTokensAndWarns ==
    (ClickedWithText /\ SomeRunOverInt64(raw_text_input)) =>
        /\ ResultIds = RemoveLaterDuplicates(MaximalDigitRuns(raw_text_input))
        /\ show_output
        /\ warnings /= {}

\* The identifiers of the latest click's text (none before any click).
LastClickIds ==
    IF last_click = NoClick \/ IsFalsy(last_click) THEN <<>>
    ELSE Numeros(process_contract_ids(last_click))

C10_State ==
    /\ show_output <=> LastClickIds /= <<>>
    /\ show_output =>
          /\ IsSqlLiteralOf(saida_formatada, LastClickIds)
          /\ total_ids = Len(LastClickIds)
          /\ OutputPanel = [info |-> Len(LastClickIds), code |-> saida_formatada]
    /\ (button /\ LastClickIds = <<>>) =>
          /\ ~show_output
          /\ warnings \in {{WarnColeOsIds}, {WarnNenhumContractId}}
          /\ warnings = {WarnColeOsIds} <=> IsFalsy(last_click)

\* C10: show_output is true exactly when the latest click's text gave an
\* identifier, and then saida_formatada is their SQL literal and total_ids
\* their number; a click that gives none clears show_output with a warning;
\* a rerun without a click changes none of the three fields.
C10_SessionConsistency ==
    /\ []C10_State
    /\ [][~button' => UNCHANGED session]_vars

\* C10: after a successful click, a click that finds nothing has hidden the
\* output and left the older count behind.
C10_Witness ==
    /\ button
    /\ ~IsFalsy(last_click)
    /\ LastClickIds = <<>>
    /\ ~show_output
    /\ total_ids > 0
    /\ warnings = {WarnNenhumContractId}

====
